---- MODULE Spec2Model ----
(***************************************************************************)
(* A model of the partylog client.                                         *)
(*                                                                         *)
(*   Part A  IndexedStore (src/src/store.ts): the 'log' and 'extra' object *)
(*           stores, the `adding` map and the asynchronous steps of add.   *)
(*   Part B  BaseNode (src/src/client-node.ts): the sync step.             *)
(*   Part C  CrossTabClient (src/src/cross-tab-client.ts): leader election *)
(*           between tabs, add, sendSync, initialize and storage events.   *)
(*   Part D  IndexedStore of src/src/index.ts.                             *)
(*   Part E  Inbound messages: the node's 'error' handler, the server.     *)
(*   Part F  isFirstOlder, serializeSeq and deserializeSeq.                *)
(*   Part G  The action creators.                                          *)
(*   Part H  ClientNode: the connect handshake.                            *)
(*                                                                         *)
(* The IndexedDB engine is modelled at its boundary: an object store is a  *)
(* set of records addressed by the key path the code declares              *)
(* ('metadata.id' for 'log', 'key' for 'extra'); a cursor hands the code   *)
(* one stored record.  The schema of store.ts no longer creates the index  *)
(* 'id' (store.ts 132-135) and the database version is unchanged, so the   *)
(* database either was made by this schema and index('id') throws, or was  *)
(* made while the index was created on 'metadata.id' and index('id') looks *)
(* a record up by its metadata.id: idIndex says which.                     *)
(* JavaScript values keep their shape:                                     *)
(* a record has exactly the fields the code wrote, reading a field that is *)
(* not there gives undefined, and indexing undefined throws.               *)
(***************************************************************************)
EXTENDS Integers, Sequences, FiniteSets, TLC

\* ------------------------------------------------------------------ bounds
MaxCalls == 2
MaxSeq == 1
MaxAdded == 3
MaxTabs == 2
MaxWrites == 2
MaxTime == 3
MaxStamp == 11
MaxName == 2
MaxConns == 3

CallIds == 1..MaxCalls
Contents == {"test", "testing"}
Scopes == {"private"}

\* ------------------------------------------------------- JavaScript values
\* A value that may be undefined / null: <<>> when absent, <<v>> when present.
Undefined == <<>>
Some(v) == <<v>>
IsDefined(b) == b # <<>>

\* obj[f] of a JavaScript object held as a record.
Field(obj, f) == IF f \in DOMAIN obj THEN Some(obj[f]) ELSE Undefined

VARIABLES
    log,        \* object store 'log' (keyPath 'metadata.id'): set of entries
    adding,     \* IndexedStore.adding: the localSeq keys that are set
    extra,      \* object store 'extra': <<>> or <<record stored under 'lastSynced'>>
    clock,      \* the last value monotonic-timestamp's ts() returned
    sign,       \* whether the store was constructed with opts.sign
    idIndex,    \* whether the database's 'log' store has an index named 'id'
    calls,      \* the add calls: CallIds -> the call's frame
    byIdRes,    \* what the last byId call returned
    removeRes,  \* what the last remove call returned
    changeRes,  \* what the last changeMeta call returned
    fn,         \* the last call of a function of the module: arguments and result
    ix,         \* the IndexedStore of index.ts: its db promise and its calls
    factory,    \* the module's action creator factory: the build's PROD flag
                \* as far as it was read, and the actionTypes map
    lastSent,   \* BaseNode.lastSent
    lastReceived, \* BaseNode.lastReceived
    nlog,       \* the node's log as log.each reads it: entries ascending by added
    connected,  \* BaseNode.connected
    state,      \* BaseNode.state
    syncing,    \* BaseNode.syncing
    sync,       \* the syncSince call: its frame and what it gave connection.send
    tab,        \* the CrossTabClient of each tab: its fields and its socket
    lock,       \* the Web Lock 'partylog_leader': its holder and the pending requests
    tlog,       \* the object store 'log' the tabs share, in key order
    writes,     \* for each entry of tlog, the tab that wrote it and its role then
    cnode,      \* the ClientNode: its flags, its connection, the callbacks chained
                \* on this.initializing and the handshakes sent per connection
    storage     \* localStorage: the value under the 'state' key and the tabs a
                \* storage event for that key is on its way to

storeVars == <<log, adding, extra, clock, sign, idIndex, calls, byIdRes, removeRes,
               changeRes, fn, ix, factory>>
markVars == <<lastSent, lastReceived>>
nodeVars == <<nlog, connected, state, syncing, sync>>
tabVars == <<tab, lock, tlog, writes>>
vars == <<log, adding, extra, clock, sign, idIndex, calls, byIdRes, removeRes,
          changeRes, fn, ix, factory,
          lastSent, lastReceived, nlog, connected, state, syncing, sync,
          tab, lock, tlog, writes, cnode, storage>>

\* --------------------------------------------------- identity primitives
deviceName == "alice"
username == "alice"
did == "did:key:z1"

\* toString(blake3(stringify(x))): a collision-free digest of the canonical
\* serialization, so equal inputs give equal digests and different inputs
\* different ones.
Hash(x) == <<"blake3", x>>

\* this.sign(stringify(meta))
Signature(meta) == <<"sig", meta>>

\* ---------------------------------------------------------- store reads
LocalSeqOf(e) == e.metadata.seq[2]

\* The greatest localSeq persisted, -1 for an empty log.
MaxLocalSeq(entries) ==
    IF entries = {} THEN -1
    ELSE CHOOSE n \in {LocalSeqOf(e) : e \in entries} :
             \A e \in entries : LocalSeqOf(e) <= n

\* index('id').get(id)
GetById(id) ==
    IF \E e \in log : e.metadata.id = id
    THEN Some(CHOOSE e \in log : e.metadata.id = id)
    ELSE Undefined

\* getLastAdded with the cursor on `cur` (<<>>: the store is empty).
\* The object it builds reads the top-level fields seq and id of the record.
LastAddedFrom(cur) ==
    IF cur = <<>>
    THEN [found |-> FALSE, seq |-> Undefined, id |-> Undefined]
    ELSE [found |-> TRUE, seq |-> Field(cur[1], "seq"), id |-> Field(cur[1], "id")]

\* ------------------------------------------------------------ add: frames
IdleCall ==
    [pc |-> "idle", content |-> "", scope |-> "", prev |-> <<>>,
     lastAdded |-> LastAddedFrom(<<>>), sawMax |-> -1, with |-> {},
     localSeq |-> -1, meta |-> <<>>, ret |-> <<>>]

InFlight(c) == calls[c].pc \in {"getLastAdded", "resume", "sign", "exist"}

InitStore ==
    /\ log = {}
    /\ adding = {}
    /\ extra = <<>>
    /\ clock = 0
    /\ sign \in BOOLEAN
    /\ idIndex \in BOOLEAN
    /\ calls = [c \in CallIds |-> IdleCall]
    /\ byIdRes = [id |-> <<>>, threw |-> FALSE, action |-> Undefined, meta |-> Undefined]
    /\ removeRes = [id |-> <<>>, threw |-> FALSE, entry |-> Undefined]
    /\ changeRes = [id |-> <<>>, threw |-> FALSE, ret |-> Undefined]
    /\ fn = [name |-> "none", args |-> <<>>, out |-> <<>>]
    /\ ix = [db |-> "opening", adding |-> {}, add |-> Undefined, byId |-> Undefined]
    /\ factory = [env |-> "unread", actionTypes |-> {}]
    /\ lastSent = 0
    /\ lastReceived = 0

\* store.add(content, { scope }, prev) is called: the call runs to its first
\* await, the cursor request of getLastAdded.
AddCall(c, content, scope, prev) ==
    /\ calls[c].pc = "idle"
    /\ \A d \in CallIds : d < c => calls[d].pc # "idle"
    /\ calls' = [calls EXCEPT ![c] =
                    [@ EXCEPT !.pc = "getLastAdded", !.content = content,
                              !.scope = scope, !.prev = prev,
                              !.with = {d \in CallIds : InFlight(d)}]]
    /\ UNCHANGED <<log, adding, extra, clock, sign, idIndex, byIdRes, removeRes, changeRes, fn, ix, factory>>
    /\ UNCHANGED <<markVars, nodeVars, tabVars, cnode, storage>>

\* The cursor request of getLastAdded completes: openCursor(null, 'prev') is on
\* the record with the greatest key.  Keys are digests, whose order is not
\* modelled: any stored record may be the one.
AddGetLastAdded(c) ==
    /\ calls[c].pc = "getLastAdded"
    /\ \E cur \in (IF log = {} THEN {<<>>} ELSE {Some(e) : e \in log}) :
          calls' = [calls EXCEPT ![c] =
                       [@ EXCEPT !.pc = "resume",
                                 !.lastAdded = LastAddedFrom(cur),
                                 !.sawMax = MaxLocalSeq(log)]]
    /\ UNCHANGED <<log, adding, extra, clock, sign, idIndex, byIdRes, removeRes, changeRes, fn, ix, factory>>
    /\ UNCHANGED <<markVars, nodeVars, tabVars, cnode, storage>>

\* if (lastAdded === -1) localSeq = 0 else localSeq = lastAdded.seq[1] + 1
\* <<>> when lastAdded.seq is undefined and the index throws a TypeError.
NextLocalSeq(lastAdded) ==
    IF ~lastAdded.found THEN Some(0)
    ELSE IF IsDefined(lastAdded.seq) THEN Some(lastAdded.seq[1][2] + 1)
    ELSE Undefined

\* newMetadata before the id (and the signature) is attached.
NewMetadata(prev, localSeq, timestamp, content, scope) ==
    [prev |-> IF IsDefined(prev) THEN Some(prev[1].metadata.id) ELSE Undefined,
     seq |-> <<timestamp, localSeq, deviceName>>,
     proof |-> Hash(content),
     scope |-> scope,
     username |-> username,
     timestamp |-> timestamp,
     author |-> did]

\* Object.assign(newMetadata, { signature }): the signature of the metadata so far.
WithSignature(meta) ==
    [f \in DOMAIN meta \cup {"signature"} |->
        IF f = "signature" THEN Signature(meta) ELSE meta[f]]

\* An id that digests the metadata without its signature.
WithIdOfUnsigned(meta) ==
    [f \in DOMAIN meta \cup {"id"} |->
        IF f = "id"
        THEN Hash([g \in DOMAIN meta \ {"signature"} |-> meta[g]])
        ELSE meta[f]]

\* Object.assign(newMetadata, { id }): the id is the digest of the metadata so far.
WithId(meta) ==
    [f \in DOMAIN meta \cup {"id"} |->
        IF f = "id" THEN Hash(meta) ELSE meta[f]]

\* const entry = { metadata: newMetadata, content: 'testing' }
EntryOf(meta, content) == [metadata |-> meta, content |-> "testing"]

\* if (this.adding[localSeq]) return null; this.adding[localSeq] = true; then
\* the request of the existence check is placed.
AddingGuard(c, frame, meta) ==
    IF frame.localSeq \in adding
    THEN /\ calls' = [calls EXCEPT ![c] =
                         [frame EXCEPT !.pc = "done", !.meta = Some(meta),
                                       !.ret = Undefined]]
         /\ UNCHANGED adding
    ELSE /\ calls' = [calls EXCEPT ![c] =
                         [frame EXCEPT !.pc = "exist", !.meta = Some(meta)]]
         /\ adding' = adding \cup {frame.localSeq}

\* add continues after `await this.getLastAdded()`: localSeq, ts(), the
\* metadata; with a signing function it awaits the signature, without one it
\* goes on to the id and the adding guard in the same turn.
AddResume(c) ==
    /\ calls[c].pc = "resume"
    /\ LET n == NextLocalSeq(calls[c].lastAdded) IN
       IF ~IsDefined(n)
       THEN /\ calls' = [calls EXCEPT ![c] = [@ EXCEPT !.pc = "threw"]]
            /\ UNCHANGED <<adding, clock>>
       ELSE LET timestamp == clock + 1
                meta == NewMetadata(calls[c].prev, n[1], timestamp,
                                    calls[c].content, calls[c].scope)
                frame == [calls[c] EXCEPT !.localSeq = n[1]]
            IN /\ clock' = timestamp
               /\ IF sign
                  THEN /\ calls' = [calls EXCEPT ![c] =
                                       [frame EXCEPT !.pc = "sign",
                                                     !.meta = Some(meta)]]
                       /\ UNCHANGED adding
                  ELSE AddingGuard(c, frame, WithId(meta))
    /\ UNCHANGED <<log, extra, sign, idIndex, byIdRes, removeRes, changeRes, fn, ix, factory>>
    /\ UNCHANGED <<markVars, nodeVars, tabVars, cnode, storage>>

\* `await this.sign(stringify(newMetadata))` resolves: signature, then id,
\* then the adding guard.
AddSigned(c) ==
    /\ calls[c].pc = "sign"
    /\ AddingGuard(c, calls[c], WithId(WithSignature(calls[c].meta[1])))
    /\ UNCHANGED <<log, extra, clock, sign, idIndex, byIdRes, removeRes, changeRes, fn, ix, factory>>
    /\ UNCHANGED <<markVars, nodeVars, tabVars, cnode, storage>>

\* An existence check that rejects when the id is found.
AddExistThrows(c) ==
    /\ calls[c].pc = "exist"
    /\ LET meta == calls[c].meta[1] IN
       IF ~idIndex \/ IsDefined(GetById(meta.id))
       THEN /\ calls' = [calls EXCEPT ![c] = [@ EXCEPT !.pc = "threw"]]
            /\ UNCHANGED <<log, adding>>
       ELSE /\ log' = log \cup {EntryOf(meta, calls[c].content)}
            /\ adding' = adding \ {calls[c].localSeq}
            /\ calls' = [calls EXCEPT ![c] =
                            [@ EXCEPT !.pc = "done", !.ret = Some(meta)]]
    /\ UNCHANGED <<extra, clock, sign, idIndex, byIdRes, removeRes, changeRes, fn, ix, factory>>
    /\ UNCHANGED <<markVars, nodeVars, tabVars, cnode, storage>>

\* The existence check: index('id') throws when the database has no such
\* index, with the marker left set.  Otherwise if (exist) return null; else
\* the entry is written, the marker deleted and the metadata returned.
AddExist(c) ==
    /\ calls[c].pc = "exist"
    /\ LET meta == calls[c].meta[1] IN
       IF ~idIndex
       THEN /\ calls' = [calls EXCEPT ![c] = [@ EXCEPT !.pc = "threw"]]
            /\ UNCHANGED <<log, adding>>
       ELSE IF IsDefined(GetById(meta.id))
       THEN /\ calls' = [calls EXCEPT ![c] =
                            [@ EXCEPT !.pc = "done", !.ret = Undefined]]
            /\ UNCHANGED <<log, adding>>
       ELSE /\ log' = log \cup {EntryOf(meta, calls[c].content)}
            /\ adding' = adding \ {calls[c].localSeq}
            /\ calls' = [calls EXCEPT ![c] =
                            [@ EXCEPT !.pc = "done", !.ret = Some(meta)]]
    /\ UNCHANGED <<extra, clock, sign, idIndex, byIdRes, removeRes, changeRes, fn, ix, factory>>
    /\ UNCHANGED <<markVars, nodeVars, tabVars, cnode, storage>>

\* ------------------------------------------------- byId, remove, watermarks
\* An id no entry has: the digest of metadata with a timestamp ts() never returns.
UnknownId == WithId(NewMetadata(Undefined, 0, 0, "test", "private")).id

KnownIds == {e.metadata.id : e \in log}

\* byId(id): index('id') throws without the index; otherwise
\* if (result) return [result.action, result.meta]; return [null, null]
ById(id) ==
    /\ LET result == IF idIndex THEN GetById(id) ELSE Undefined IN
       byIdRes' = [id |-> Some(id),
                   threw |-> ~idIndex,
                   action |-> IF IsDefined(result)
                              THEN Field(result[1], "action") ELSE Undefined,
                   meta |-> IF IsDefined(result)
                            THEN Field(result[1], "meta") ELSE Undefined]
    /\ UNCHANGED <<log, adding, extra, clock, sign, idIndex, calls, removeRes, changeRes, fn, ix, factory>>
    /\ UNCHANGED <<markVars, nodeVars, tabVars, cnode, storage>>

\* A key handed to the object store: a number or a string (a digest).  Keys of
\* different types are never equal.
NumberKey(n) == [type |-> "number", value |-> n]
StringKey(x) == [type |-> "string", value |-> x]
KeyEq(a, b) == IF a.type = b.type THEN a.value = b.value ELSE FALSE

\* The key of an entry in 'log': keyPath 'metadata.id'.
KeyOf(e) == StringKey(e.metadata.id)

\* objectStore.delete(key)
Delete(entries, key) == {e \in entries : ~KeyEq(KeyOf(e), key)}

\* remove(id): the entry is looked up by id and deleted by the key
\* entry.metadata.seq[1].
Remove(id) ==
    /\ LET entry == IF idIndex THEN GetById(id) ELSE Undefined IN
       IF ~IsDefined(entry)
       THEN /\ removeRes' = [id |-> Some(id), threw |-> ~idIndex, entry |-> Undefined]
            /\ UNCHANGED log
       ELSE /\ log' = Delete(log, NumberKey(entry[1].metadata.seq[2]))
            /\ removeRes' = [id |-> Some(id), threw |-> FALSE, entry |-> entry]
    /\ UNCHANGED <<adding, extra, clock, sign, idIndex, calls, byIdRes, changeRes, fn, ix, factory>>
    /\ UNCHANGED <<markVars, nodeVars, tabVars, cnode, storage>>

\* for (const key in diff) entry.metadata[key] = diff[key]
WithDiff(meta, diff) ==
    [f \in DOMAIN meta \cup DOMAIN diff |->
        IF f \in DOMAIN diff THEN diff[f] ELSE meta[f]]

\* objectStore.put(entry): the record under the entry's key is replaced, or
\* the entry is added when no record has that key.
Put(entries, e) == Delete(entries, KeyOf(e)) \cup {e}

\* changeMeta(id, diff): index('id') throws without the index; a missing entry
\* gives false; otherwise the keys of diff are assigned to entry.metadata and
\* the entry is put.  A byId result read before the call is forgotten.
ChangeMeta(id, diff) ==
    /\ LET entry == IF idIndex THEN GetById(id) ELSE Undefined IN
       IF ~IsDefined(entry)
       THEN /\ changeRes' = [id |-> Some(id), threw |-> ~idIndex,
                             ret |-> IF idIndex THEN Some(FALSE) ELSE Undefined]
            /\ UNCHANGED log
       ELSE /\ log' = Put(log, [entry[1] EXCEPT
                                   !.metadata = WithDiff(@, diff)])
            /\ changeRes' = [id |-> Some(id), threw |-> FALSE, ret |-> Some(TRUE)]
    /\ byIdRes' = [id |-> <<>>, threw |-> FALSE, action |-> Undefined, meta |-> Undefined]
    /\ UNCHANGED <<adding, extra, clock, sign, idIndex, calls, removeRes, fn, ix, factory>>
    /\ UNCHANGED <<markVars, nodeVars, tabVars, cnode, storage>>

\* setLastSynced(values) reads 'lastSynced' (or starts from -1, -1), overwrites
\* the fields that are given, and puts the record.
\* A setLastSynced that adds the given values to the stored ones.
LastSyncedAdded(stored, values) ==
    LET data == IF stored = <<>>
                THEN [key |-> "lastSynced", received |-> -1, sent |-> -1]
                ELSE stored[1]
    IN  [key |-> "lastSynced",
         received |-> IF IsDefined(values.received)
                      THEN data.received + values.received[1] ELSE data.received,
         sent |-> IF IsDefined(values.sent)
                  THEN data.sent + values.sent[1] ELSE data.sent]

\* The record setLastSynced(values) puts: the stored one, or
\* { received: -1, sent: -1 } when there is none, with the given fields set.
LastSyncedAfter(stored, values) ==
    LET data == IF stored = <<>>
                THEN [key |-> "lastSynced", received |-> -1, sent |-> -1]
                ELSE stored[1]
        withSent == IF IsDefined(values.sent)
                    THEN [data EXCEPT !.sent = values.sent[1]] ELSE data
        withReceived == IF IsDefined(values.received)
                        THEN [withSent EXCEPT !.received = values.received[1]]
                        ELSE withSent
    IN withReceived

SetLastSynced(values) == extra' = Some(LastSyncedAfter(extra, values))

\* store.setLastSynced(values) called on the store.
StoreSetLastSynced(values) ==
    /\ SetLastSynced(values)
    /\ UNCHANGED <<log, adding, clock, sign, idIndex, calls, byIdRes, removeRes, changeRes, fn, ix, factory>>
    /\ UNCHANGED <<markVars, nodeVars, tabVars, cnode, storage>>

\* BaseNode.setLastSent(value)
SetLastSent(value) ==
    /\ IF lastSent < value
       THEN /\ lastSent' = value
            /\ SetLastSynced([sent |-> Some(value), received |-> Undefined])
       ELSE UNCHANGED <<lastSent, extra>>
    /\ UNCHANGED <<log, adding, clock, sign, idIndex, calls, byIdRes, removeRes, changeRes, fn, ix, factory, lastReceived>>
    /\ UNCHANGED <<nodeVars, tabVars, cnode, storage>>

\* BaseNode.setLastReceived(value)
SetLastReceived(value) ==
    /\ lastReceived' = IF lastReceived < value THEN value ELSE lastReceived
    /\ SetLastSynced([sent |-> Undefined, received |-> Some(value)])
    /\ UNCHANGED <<log, adding, clock, sign, idIndex, calls, byIdRes, removeRes, changeRes, fn, ix, factory, lastSent>>
    /\ UNCHANGED <<nodeVars, tabVars, cnode, storage>>

\* =========================================================================
\* Part B.  The sync step of BaseNode (client-node.ts): syncSince and
\* syncSinceQuery read the log newest first and hand the unsynced entries to
\* this.sendSync.  The repository defines sendSync once, in the client
\* (cross-tab-client.ts 196-218); the node runs that body against its own
\* send and setState.  No outFilter and no outMap are configured.
\* =========================================================================

\* An entry as log.each yields it: [action, meta], the store's key in
\* meta.added (index.ts 301) and in meta.seq (index.ts 250).
NodeAction(i) == [type |-> "test", n |-> i]
NodeMeta(i) == [id |-> i, time |-> i, seq |-> i, added |-> i]
NodeEntry(i) == <<NodeAction(i), NodeMeta(i)>>

IdleSync ==
    [pc |-> "idle", lastSynced |-> 0, seen |-> <<>>,
     data |-> [added |-> 0, entries |-> <<>>], online |-> FALSE, sent |-> <<>>]

InitNode ==
    /\ nlog = <<>>
    /\ connected = FALSE
    /\ state = "disconnected"
    /\ syncing = 0
    /\ sync = IdleSync

\* log.add: the store appends the entry under the next autoIncrement key.
\* BaseNode.onAdd returns at once, this.authenticated being false.
LogAdd ==
    /\ Len(nlog) < MaxAdded
    /\ nlog' = Append(nlog, NodeEntry(Len(nlog) + 1))
    /\ UNCHANGED <<connected, state, syncing, sync>>
    /\ UNCHANGED <<storeVars, markVars, tabVars, cnode, storage>>

\* BaseNode.setState: the state after setState(next).
SetState(cur, next) == IF cur # next THEN next ELSE cur

OnConnecting ==
    /\ state' = SetState(state, "connecting")
    /\ UNCHANGED <<nlog, connected, syncing, sync>>
    /\ UNCHANGED <<storeVars, markVars, tabVars, cnode, storage>>

OnConnect ==
    /\ connected' = TRUE
    /\ UNCHANGED <<nlog, state, syncing, sync>>
    /\ UNCHANGED <<storeVars, markVars, tabVars, cnode, storage>>

\* The mutation of onDisconnect without its setState('disconnected').
OnDisconnectKeepState ==
    /\ connected' = FALSE
    /\ syncing' = 0
    /\ UNCHANGED state
    /\ UNCHANGED <<nlog, sync>>
    /\ UNCHANGED <<storeVars, markVars, tabVars, cnode, storage>>

OnDisconnect ==
    /\ connected' = FALSE
    /\ syncing' = 0
    /\ state' = SetState(state, "disconnected")
    /\ UNCHANGED <<nlog, sync>>
    /\ UNCHANGED <<storeVars, markVars, tabVars, cnode, storage>>

\* log.each({ order: 'added' }, cb) with the callback of syncSinceQuery: the
\* entries are visited from the newest down, the visit stops at the first one
\* with meta.added <= lastSynced, every visited entry is kept.
RECURSIVE EachAdded(_, _, _)
EachAdded(entries, i, lastSynced) ==
    IF i = 0 THEN <<>>
    ELSE IF entries[i][2].added <= lastSynced THEN <<>>
    ELSE <<entries[i]>> \o EachAdded(entries, i - 1, lastSynced)

\* data.added: the largest meta.added among the kept entries, 0 when none.
RECURSIVE MaxAddedOf(_, _, _)
MaxAddedOf(entries, i, added) ==
    IF i > Len(entries) THEN added
    ELSE MaxAddedOf(entries, i + 1,
                    IF added < entries[i][2].added THEN entries[i][2].added ELSE added)

SyncSinceQuery(entries, lastSynced) ==
    LET kept == EachAdded(entries, Len(entries), lastSynced)
    IN  [added |-> MaxAddedOf(kept, 1, 0), entries |-> kept]

\* sendSync copies meta without its 'seq' key.
StripSeq(meta) == [k \in (DOMAIN meta) \ {"seq"} |-> meta[k]]

\* The mutation of the loop of sendSync that pushes instead of unshifting.
RECURSIVE SyncDataPush(_, _, _)
SyncDataPush(entries, i, data) ==
    IF i > Len(entries) THEN data
    ELSE SyncDataPush(entries, i + 1,
                      data \o <<entries[i][1], StripSeq(entries[i][2])>>)

\* The loop of sendSync: data.unshift(action, meta) for each entry in turn.
RECURSIVE SyncData(_, _, _)
SyncData(entries, i, data) ==
    IF i > Len(entries) THEN data
    ELSE SyncData(entries, i + 1,
                  <<entries[i][1], StripSeq(entries[i][2])>> \o data)

\* The message sendSync builds: ['sync', seq, ...data].
SyncMessage(seq, entries) ==
    [type |-> "sync", seq |-> seq, data |-> SyncData(entries, 1, <<>>)]

\* BaseNode.send: what connection.send has been given after send(msg).
Send(isConnected, out, msg) == IF ~isConnected THEN out ELSE Append(out, msg)

\* syncSince(lastSynced) is called and awaits syncSinceQuery.
SyncSince(lastSynced) ==
    /\ sync.pc \in {"idle", "done"}
    /\ sync' = [IdleSync EXCEPT !.pc = "query", !.lastSynced = lastSynced]
    /\ UNCHANGED <<nlog, connected, state, syncing>>
    /\ UNCHANGED <<storeVars, markVars, tabVars, cnode, storage>>

\* syncSinceQuery reads the log.
SyncSinceRead ==
    /\ sync.pc = "query"
    /\ sync' = [sync EXCEPT !.pc = "resume", !.seen = nlog,
                            !.data = SyncSinceQuery(nlog, sync.lastSynced)]
    /\ UNCHANGED <<nlog, connected, state, syncing>>
    /\ UNCHANGED <<storeVars, markVars, tabVars, cnode, storage>>

\* syncSince resumes with the data: nothing when the connection is gone,
\* sendSync when there are entries, else only setState('synchronized').
SyncSinceResume ==
    /\ sync.pc = "resume"
    /\ IF ~connected
         THEN /\ sync' = [sync EXCEPT !.pc = "done", !.online = FALSE]
              /\ UNCHANGED <<state, syncing>>
         ELSE IF Len(sync.data.entries) > 0
         THEN LET msg == SyncMessage(sync.data.added, sync.data.entries)
                  during == syncing + 1
                  after == IF during > 0 THEN during - 1 ELSE during
              IN  /\ sync' = [sync EXCEPT !.pc = "done", !.online = TRUE,
                                          !.sent = Send(connected, sync.sent, msg)]
                  /\ syncing' = after
                  /\ state' = IF after = 0
                                THEN SetState(SetState(state, "sending"), "synchronized")
                                ELSE SetState(state, "sending")
         ELSE /\ sync' = [sync EXCEPT !.pc = "done", !.online = TRUE]
              /\ state' = SetState(state, "synchronized")
              /\ UNCHANGED syncing
    /\ UNCHANGED <<nlog, connected>>
    /\ UNCHANGED <<storeVars, markVars, tabVars, cnode, storage>>

\* =========================================================================
\* Part C.  CrossTabClient (cross-tab-client.ts 1-414, unnamed/part_003): the
\* tabs of one device elect a leader with the Web Lock 'partylog_leader'; each
\* tab owns a PartySocket that starts closed and a handle on the shared store
\* (the store of cross-tab-client.ts 416-931).  The Web Locks API and
\* localStorage exist; a localStorage write may fail.
\* =========================================================================
Tabs == 1..MaxTabs
NoTab == 0

\* The fields of a client before its constructor has run.
NewClient ==
    [status |-> "none", role |-> "follower", isLocalStorage |-> TRUE,
     state |-> "disconnected", syncing |-> 0, unlead |-> FALSE,
     party |-> "closed", sent |-> <<>>, given |-> <<>>, handed |-> Undefined,
     lastAddedCache |-> 0, addRes |-> [c \in CallIds |-> "none"],
     initialized |-> FALSE, added |-> Undefined, leaderState |-> Undefined,
     received |-> {}]

InitTabs ==
    /\ tab = [t \in Tabs |-> NewClient]
    /\ lock = [held |-> NoTab, queue |-> {}]
    /\ tlog = <<>>
    /\ writes = <<>>
    /\ storage = [state |-> Undefined, pending |-> {}]

\* new CrossTabClient(opts): the socket starts closed, the lock is requested.
Construct(t) ==
    /\ tab[t].status = "none"
    /\ tab' = [tab EXCEPT ![t].status = "live"]
    /\ lock' = [lock EXCEPT !.queue = @ \cup {t}]
    /\ UNCHANGED <<tlog, writes>>
    /\ UNCHANGED <<storeVars, markVars, nodeVars, cnode, storage>>

\* The store's getLastAdded: the localSeq of the last entry, 0 when none.
TabLastAdded == IF tlog = <<>> THEN 0 ELSE tlog[Len(tlog)].localSeq

\* initialize(): the reads of getLastSynced and getLastAdded started by the
\* constructor have resolved; the cache takes the store's lastAdded.
Initialize(t) ==
    /\ tab[t].status # "none"
    /\ ~tab[t].initialized
    /\ tab' = [tab EXCEPT ![t].initialized = TRUE,
                          ![t].lastAddedCache = TabLastAdded]
    /\ UNCHANGED <<lock, tlog, writes>>
    /\ UNCHANGED <<storeVars, markVars, nodeVars, cnode, storage>>

\* The lock is granted to a pending request; its callback makes the tab the
\* leader, starts the socket and keeps the lock until unlead is called.
LockGrant(t) ==
    /\ lock.held = NoTab
    /\ t \in lock.queue
    /\ lock' = [held |-> t, queue |-> lock.queue \ {t}]
    /\ tab' = [tab EXCEPT ![t].role = "leader", ![t].party = "connecting",
                          ![t].unlead = TRUE]
    /\ UNCHANGED <<tlog, writes>>
    /\ UNCHANGED <<storeVars, markVars, nodeVars, cnode, storage>>

\* destroy(): the role is given up and the lock released; the socket is left
\* as it is.
Destroy(t) ==
    /\ tab[t].status = "live"
    /\ tab' = [tab EXCEPT ![t].status = "destroyed", ![t].role = "follower"]
    /\ lock' = IF tab[t].unlead /\ lock.held = t
                 THEN [lock EXCEPT !.held = NoTab]
                 ELSE lock
    /\ UNCHANGED <<tlog, writes>>
    /\ UNCHANGED <<storeVars, markVars, nodeVars, cnode, storage>>

\* setState(client, state) with sendToTabs: the client after the call.  When
\* localStorage.setItem throws (fail), the tab stops using localStorage,
\* makes itself the leader and reconnects its socket; the socket, torn down,
\* reports the close to the client, which has stopped writing to localStorage.
ClientSetState(client, next, fail) ==
    IF client.state = next THEN client
    ELSE IF ~client.isLocalStorage \/ ~fail THEN [client EXCEPT !.state = next]
    ELSE [client EXCEPT !.state = "disconnected", !.isLocalStorage = FALSE,
                        !.role = "leader", !.party = "connecting"]

\* localStorage after setState(client, next): sendToTabs writes the state
\* under the 'state' key unless the tab has stopped using localStorage or the
\* write throws; a write that changes the value sends a storage event to the
\* window of every other tab.
SendToTabs(t, client, next, fail) ==
    IF client.state = next \/ ~client.isLocalStorage \/ fail THEN storage
    ELSE [state |-> Some(next),
          pending |-> IF storage.state = Some(next) THEN storage.pending
                      ELSE storage.pending
                           \cup {u \in Tabs \ {t} : tab[u].status # "none"}]

\* The socket opens: party.onopen.
PartyOpen(t, fail) ==
    /\ tab[t].party = "connecting"
    /\ tab' = [tab EXCEPT ![t] =
                 ClientSetState([tab[t] EXCEPT !.party = "open"], "connected", fail)]
    /\ storage' = SendToTabs(t, tab[t], "connected", fail)
    /\ UNCHANGED <<lock, tlog, writes>>
    /\ UNCHANGED <<storeVars, markVars, nodeVars, cnode>>

\* The socket loses its connection and starts to reconnect: party.onclose.
PartyClose(t, fail) ==
    /\ tab[t].party \in {"connecting", "open"}
    /\ tab' = [tab EXCEPT ![t] =
                 ClientSetState([tab[t] EXCEPT !.party = "connecting"], "disconnected", fail)]
    /\ storage' = SendToTabs(t, tab[t], "disconnected", fail)
    /\ UNCHANGED <<lock, tlog, writes>>
    /\ UNCHANGED <<storeVars, markVars, nodeVars, cnode>>

\* The entry store.add(action) builds; ts() is the next timestamp.
TabEntry(action) ==
    LET localSeq == TabLastAdded + 1
        time == Len(tlog) + 1
        seq == <<time, localSeq, deviceName>>
        newMetadata == [prev |-> Undefined, seq |-> seq, localSeq |-> localSeq,
                        time |-> time, author |-> did]
        meta == [prev |-> newMetadata.prev, seq |-> seq, localSeq |-> localSeq,
                 time |-> time, author |-> did, id |-> Hash(newMetadata)]
    IN  [action |-> action, seq |-> seq, localSeq |-> localSeq, id |-> meta.id,
         time |-> time, meta |-> meta]

\* if (this.lastAddedCache < meta.localSeq) this.lastAddedCache = meta.localSeq
\* (a comparison with a field the metadata does not have is false).
CacheAfter(cache, meta) ==
    IF "localSeq" \in DOMAIN meta /\ cache < meta.localSeq THEN meta.localSeq ELSE cache

\* if (this.received && this.received[meta.id]) delete this.received[meta.id]
ReceivedAfter(received, meta) == received \ {meta.id}

\* client.add(action): the tab, whatever its role, adds to the store itself,
\* brings its cache up to the entry and takes the id of the new metadata out
\* of `received` (one entry: the second store.add of cross-tab-client.ts 244
\* throws at prev.meta.id before it writes, and before syncEvent).
TabAddAction(t, action) ==
    /\ tab[t].status # "none"
    /\ Len(tlog) < MaxWrites
    /\ tlog' = Append(tlog, TabEntry(action))
    /\ writes' = Append(writes, [tab |-> t, role |-> tab[t].role, via |-> "add"])
    /\ tab' = [tab EXCEPT ![t].lastAddedCache = CacheAfter(@, TabEntry(action).meta),
                          ![t].received = ReceivedAfter(@, TabEntry(action).meta)]
    /\ UNCHANGED lock
    /\ UNCHANGED <<storeVars, markVars, nodeVars, cnode, storage>>

\* client.add of an action of the application.
TabAdd(t) == TabAddAction(t, [type |-> "test"])

\* An add that goes through both store.add calls, each writing an entry.
OnStorageAddTwice(t) ==
    /\ tab[t].status # "none"
    /\ tab[t].role = "leader"
    /\ Len(tlog) + 1 < MaxWrites
    /\ LET first == Append(tlog, TabEntry([type |-> "test"])) IN
       tlog' = Append(first, [TabEntry([type |-> "test"]) EXCEPT
                                !.time = Len(first) + 1,
                                !.localSeq = first[Len(first)].localSeq + 1])
    /\ writes' = Append(writes, [tab |-> t, role |-> tab[t].role, via |-> "storage"])
    /\ UNCHANGED <<tab, lock>>
    /\ UNCHANGED <<storeVars, markVars, nodeVars, cnode, storage>>

\* onStorage with an 'add' event of another tab: the leader calls
\* this.add(action, meta), which adds the action as a new entry; a follower
\* does nothing.  The listener stays registered after destroy.
OnStorageAdd(t) ==
    /\ tab[t].status # "none"
    /\ tab[t].role = "leader"
    /\ Len(tlog) < MaxWrites
    /\ tlog' = Append(tlog, TabEntry([type |-> "test"]))
    /\ writes' = Append(writes, [tab |-> t, role |-> tab[t].role, via |-> "storage"])
    /\ tab' = [tab EXCEPT ![t].lastAddedCache =
                             CacheAfter(@, TabEntry([type |-> "test"]).meta),
                          ![t].received =
                             ReceivedAfter(@, TabEntry([type |-> "test"]).meta)]
    /\ UNCHANGED lock
    /\ UNCHANGED <<storeVars, markVars, nodeVars, cnode, storage>>

\* The [action, meta] pairs of the entries lo..hi of the store, oldest first.
Batch(lo, hi) == [i \in 1..(hi - lo + 1) |-> <<tlog[lo + i - 1].action, tlog[lo + i - 1].meta>>]

\* The connected getter.
Connected(client) == client.state = "connected"

\* client.sendSync(seq, entries): the message is built, the state set to
\* 'sending', the message given to send, which passes it to party.send when
\* the connected getter holds.
TabSendSync(t, seq, entries) ==
    /\ tab[t].status # "none"
    /\ LET msg == SyncMessage(seq, entries)
           during == [tab[t] EXCEPT !.syncing = @ + 1,
                                    !.state = SetState(@, "sending")]
           out == IF ~Connected(during) THEN during.sent ELSE Append(during.sent, msg)
           less == IF during.syncing > 0 THEN during.syncing - 1 ELSE during.syncing
       IN  tab' = [tab EXCEPT ![t] =
                     [during EXCEPT !.syncing = less,
                                    !.state = IF less = 0 THEN SetState(@, "synchronized") ELSE @,
                                    !.sent = out,
                                    !.given = entries,
                                    !.handed = Some(msg)]]
    /\ UNCHANGED <<lock, tlog, writes>>
    /\ UNCHANGED <<storeVars, markVars, nodeVars, cnode, storage>>

\* --------------------------------------------------------- specification
\* new ClientNode(nodeId, log, connection): not connected, initialize()
\* started and pending, the connection not yet up.
InitClientNode ==
    cnode = [connected |-> FALSE, initialized |-> FALSE, up |-> FALSE,
             conn |-> 0, chained |-> 0, handshakes |-> [n \in 1..MaxConns |-> 0]]

Init == InitStore /\ InitNode /\ InitTabs /\ InitClientNode
AddStep ==
    \/ \E c \in CallIds, content \in Contents, scope \in Scopes :
          \E prev \in {Undefined} \cup {Some(e) : e \in log} :
             AddCall(c, content, scope, prev)
    \/ \E c \in CallIds : AddGetLastAdded(c)
    \/ \E c \in CallIds : AddResume(c)
    \/ \E c \in CallIds : AddSigned(c)
    \/ \E c \in CallIds : AddExist(c)

\* The log store: add calls whose steps interleave, byId and remove.
Next ==
    \/ AddStep
    \/ \E id \in KnownIds \cup {UnknownId} : ById(id)
    \/ \E id \in KnownIds \cup {UnknownId} : Remove(id)

Spec == Init /\ [][Next]_vars

\* The arguments of setLastSynced: each of sent and received given or left out.
Watermarks ==
    [sent : {Undefined} \cup {Some(v) : v \in 0..MaxSeq},
     received : {Undefined} \cup {Some(v) : v \in 0..MaxSeq}]

\* The log store and its watermarks: add, remove and the watermark setters.
NextMarks ==
    \/ AddStep
    \/ \E id \in KnownIds \cup {UnknownId} : Remove(id)
    \/ \E value \in 0..MaxSeq : SetLastSent(value)
    \/ \E value \in 0..MaxSeq : SetLastReceived(value)

SpecMarks == Init /\ [][NextMarks]_vars

\* ------------------------------------------------------------- claims: store
Returned(c) == calls[c].pc = "done" /\ IsDefined(calls[c].ret)
ReturnedNull(c) == calls[c].pc = "done" /\ ~IsDefined(calls[c].ret)
Finished(c) == calls[c].pc \in {"done", "threw"}
Overlapped(c, d) == c \in calls[d].with \/ d \in calls[c].with
Persisted(c) ==
    /\ IsDefined(calls[c].meta)
    /\ "id" \in DOMAIN calls[c].meta[1]
    /\ IsDefined(GetById(calls[c].meta[1].id))

\* C1: the localSeq values of the persisted entries are exactly 0, 1, 2, ...:
\* no two entries share a localSeq and there is no gap.
C1_LocalSeqExact ==
    /\ \A e1, e2 \in log : LocalSeqOf(e1) = LocalSeqOf(e2) => e1 = e2
    /\ {LocalSeqOf(e) : e \in log} = 0..(Cardinality(log) - 1)

\* C2: of two add calls that were in flight together and computed the same
\* localSeq from the same last-added read, exactly one persists an entry and
\* returns metadata; the other returns null and persists nothing.
C2_OneOfTwoRacingAdds ==
    \A c, d \in CallIds :
        ( /\ c # d
          /\ Finished(c) /\ Finished(d)
          /\ Overlapped(c, d)
          /\ calls[c].lastAdded = calls[d].lastAdded
          /\ calls[c].sawMax = calls[d].sawMax
          /\ calls[c].localSeq = calls[d].localSeq )
        => \/ Returned(c) /\ Persisted(c) /\ ReturnedNull(d) /\ ~Persisted(d)
           \/ Returned(d) /\ Persisted(d) /\ ReturnedNull(c) /\ ~Persisted(c)

\* C3: add assigns localSeq = lastAdded.localSeq + 1 (0 on an empty store): a
\* call that has read the last-added entry goes on with that localSeq, so the
\* first add on a fresh store gets 0 and the second 1.
C3_NextLocalSeq ==
    \A c \in CallIds :
        calls[c].pc \in {"sign", "exist", "done", "threw"}
        => calls[c].localSeq = calls[c].sawMax + 1

\* C4: byId(m.id), for the metadata m an add returned, gives the content that
\* was passed to that add and metadata whose id is m.id.
C4_ByIdGivesWhatWasAdded ==
    \A c \in CallIds :
        (Returned(c) /\ byIdRes.id = Some(calls[c].ret[1].id))
        => /\ IsDefined(byIdRes.action)
           /\ byIdRes.action[1] = calls[c].content
           /\ IsDefined(byIdRes.meta)
           /\ byIdRes.meta[1].id = calls[c].ret[1].id

\* ---------------------------------------------------------- claims: marks
\* The persisted lastSynced (sent) watermark, -1 when none is stored.
LastSyncedSent == IF extra = <<>> THEN -1 ELSE extra[1].sent

\* C5: lastSynced.localSeq <= lastAdded.localSeq in every reachable state.
C5_SyncedNotAfterAdded == LastSyncedSent <= MaxLocalSeq(log)

\* The sync step of a node: the log grows, the connection comes and goes,
\* syncSince runs.
NextNode ==
    \/ LogAdd
    \/ OnConnecting
    \/ OnConnect
    \/ OnDisconnect
    \/ \E lastSynced \in 0..MaxAdded : SyncSince(lastSynced)
    \/ SyncSinceRead
    \/ SyncSinceResume
    \/ \E value \in 0..MaxSeq : SetLastSent(value)
    \/ \E value \in 0..MaxSeq : SetLastReceived(value)

SpecNode == Init /\ [][NextNode]_vars

\* ------------------------------------------------------- claims: sync step
\* The sync step has run to its end with the connection up.
SyncStepDone == sync.pc = "done" /\ sync.online

\* lastAdded when the step read the log.
SeenLastAdded == Len(sync.seen)

\* The entries with added in lo..hi, oldest first, as they go on the wire.
RECURSIVE WireEntries(_, _, _)
WireEntries(entries, lo, hi) ==
    IF lo > hi THEN <<>>
    ELSE <<entries[lo][1], StripSeq(entries[lo][2])>> \o WireEntries(entries, lo + 1, hi)

C7_SyncSendsEmptyHello ==
    (SyncStepDone /\ SeenLastAdded = sync.lastSynced)
    => /\ Len(sync.sent) = 1
       /\ sync.sent[1].seq = SeenLastAdded
       /\ sync.sent[1].data = <<>>

\* The tabs of a device: construction, lock grants, destroy, socket events
\* with localStorage writes that may fail, and adds.
NextTabs ==
    \/ \E t \in Tabs : Construct(t)
    \/ \E t \in Tabs : LockGrant(t)
    \/ \E t \in Tabs : Destroy(t)
    \/ \E t \in Tabs, fail \in BOOLEAN : PartyOpen(t, fail)
    \/ \E t \in Tabs, fail \in BOOLEAN : PartyClose(t, fail)
    \/ \E t \in Tabs : TabAdd(t)

SpecTabs == Init /\ [][NextTabs]_vars

\* One client and its socket: adds and sendSync calls with batches of stored
\* entries, oldest first.
NextClient ==
    \/ Construct(1)
    \/ LockGrant(1)
    \/ \E fail \in BOOLEAN : PartyOpen(1, fail)
    \/ \E fail \in BOOLEAN : PartyClose(1, fail)
    \/ TabAdd(1)
    \/ \E lo \in 1..Len(tlog), hi \in 1..Len(tlog) :
          lo <= hi /\ TabSendSync(1, tlog[hi].localSeq, Batch(lo, hi))

SpecClient == Init /\ [][NextClient]_vars

\* ------------------------------------------------------ claims: the client
\* C8: sendSync called with entries in ascending order puts them in the
\* message in that same order.
C8_SendSyncKeepsOrder ==
    \A t \in Tabs :
        IsDefined(tab[t].handed)
        => tab[t].handed[1].data = WireEntries(tab[t].given, 1, Len(tab[t].given))

\* C9: at most one tab is the leader with its socket open.
C9_OneLeaderConnection ==
    \A t, u \in Tabs :
        ( /\ tab[t].role = "leader" /\ tab[t].party = "open"
          /\ tab[u].role = "leader" /\ tab[u].party = "open" )
        => t = u

\* C10: every entry of the store was written by a tab that was the leader.
C10_OnlyLeaderWrites ==
    \A i \in 1..Len(writes) : writes[i].role = "leader"

\* ------------------------------------------------- claims: giving up the lead
\* The tab was granted the lock and has given it up with destroy.
FormerLeader(t) == tab[t].unlead /\ tab[t].status = "destroyed" /\ lock.held # t

\* C11: a leader that gives up the lock has its connection closed, so the
\* former leader and the tab that holds the lock next never both have an open
\* connection.
C11_FormerLeaderClosed ==
    \A t, u \in Tabs :
        (t # u /\ FormerLeader(t) /\ lock.held = u)
        => ~(tab[t].party = "open" /\ tab[u].party = "open")

\* --------------------------------------------- claims: the connection state
\* The changes of state one handler may make under the state machine
\* disconnected -> connecting -> connected -> sending -> synchronized, with a
\* return to disconnected from anywhere.  A sendSync call passes through
\* 'sending' within the call, and may start from 'synchronized' as well.
StateChanges ==
    {<<"disconnected", "connecting">>, <<"connecting", "connected">>,
     <<"connected", "sending">>, <<"sending", "synchronized">>,
     <<"connected", "synchronized">>, <<"synchronized", "sending">>}
    \cup {<<from, "disconnected">> :
            from \in {"connecting", "connected", "sending", "synchronized"}}

\* C12: the state of a client changes only along the state machine.
C12_StateMachine ==
    [][\A t \in Tabs :
          tab'[t].state # tab[t].state
          => <<tab[t].state, tab'[t].state>> \in StateChanges]_vars

\* ------------------------------------------------ claims: transport close
\* C13: a transport close, from any state, leaves the state 'disconnected'
\* and the sync counter 0, and changes neither the log nor the cached and
\* stored watermarks.
C13_CloseResets ==
    [][OnDisconnect
       => /\ state' = "disconnected"
          /\ syncing' = 0
          /\ UNCHANGED <<nlog, lastSent, lastReceived, extra>>]_vars

\* C13 witness: the connection was lost after a sync step that had sent, with
\* a watermark stored.
C13_Witness ==
    /\ state = "disconnected"
    /\ ~connected
    /\ sync.pc = "done" /\ sync.online /\ Len(sync.sent) = 1
    /\ lastSent = 1
    /\ LastSyncedSent = 1

\* The one client with what the runtime schedules by itself: the constructor
\* runs, the requested lock is granted, a connecting socket opens.  Calls of
\* add and sendSync are the application's and are not promised.
SpecClientFair ==
    /\ SpecClient
    /\ WF_vars(Construct(1))
    /\ WF_vars(LockGrant(1))
    /\ WF_vars(\E fail \in BOOLEAN : PartyOpen(1, fail))

\* What the socket of tab t has been given holds a message of this type.
SentOfType(t, type) == \E i \in 1..Len(tab[t].sent) : tab[t].sent[i].type = type

\* C14: whenever the leader's socket is open, a hello (the message that
\* advertises lastAdded) is eventually given to that socket, or the socket
\* closes first.
C14_OpenLeadsToHello ==
    (tab[1].role = "leader" /\ tab[1].party = "open")
        ~> (SentOfType(1, "hello") \/ tab[1].party # "open")

\* ------------------------------------------------ claims: the client's add
\* The continuation without its `if (!meta) throw`: it goes on to the send.
AfterStoreAddUnchecked(client, c, call) ==
    [client EXCEPT !.addRes[c] = "meta",
                   !.handed = Some(SyncMessage(client.lastAddedCache, <<>>))]

\* CrossTabClient.add after `await this.store.add(action)`: a rejected
\* store.add rejects add, a null result makes it throw; with the metadata the
\* cache is brought up and, no id being in `received`, the metadata returned.
AfterStoreAdd(client, c, call) ==
    IF call.pc = "threw" \/ ~IsDefined(call.ret)
    THEN [client EXCEPT !.addRes[c] = "threw"]
    ELSE [client EXCEPT !.addRes[c] = "meta",
                        !.lastAddedCache = CacheAfter(@, call.ret[1])]

\* The add of tab t resumes when the store call c it awaits has settled.
ClientAddReturn(t, c) ==
    /\ tab[t].status # "none"
    /\ Finished(c)
    /\ tab[t].addRes[c] = "none"
    /\ tab' = [tab EXCEPT ![t] = AfterStoreAdd(tab[t], c, calls[c])]
    /\ UNCHANGED <<lock, tlog, writes>>
    /\ UNCHANGED <<storeVars, markVars, nodeVars, cnode, storage>>

\* One client whose add calls run over the store's add.
NextAdd ==
    \/ Construct(1)
    \/ tab[1].status # "none" /\ AddStep
    \/ \E c \in CallIds : ClientAddReturn(1, c)

SpecAdd == Init /\ [][NextAdd]_vars

\* C16: no step of an add whose store call does not succeed (it returns null
\* or rejects) changes the stored entries, the stored or the cached
\* watermarks, or what the socket has been given.
C16_FailedAddChangesNothing ==
    [][\A c \in CallIds :
          ( /\ calls'[c] # calls[c] \/ tab'[1].addRes[c] # tab[1].addRes[c]
            /\ ~(calls'[c].pc = "done" /\ IsDefined(calls'[c].ret)) )
          => /\ UNCHANGED <<log, extra, lastSent, lastReceived>>
             /\ tab'[1].lastAddedCache = tab[1].lastAddedCache
             /\ tab'[1].sent = tab[1].sent
             /\ tab'[1].handed = tab[1].handed]_vars

C16_Witness ==
    \E c, d \in CallIds :
        /\ ReturnedNull(c) /\ tab[1].addRes[c] = "threw"
        /\ Returned(d) /\ tab[1].addRes[d] = "meta"

\* ------------------------------------------------- claims: the watermarks
\* The node has given its connection a sync message that covers seq.
SentUpTo(seq) == \E i \in 1..Len(sync.sent) : sync.sent[i].seq >= seq

NextSynced ==
    \/ \E value \in 0..MaxSeq : SetLastSent(value)
    \/ \E value \in 0..MaxSeq : SetLastReceived(value)
    \/ \E values \in Watermarks : StoreSetLastSynced(values)

SpecSynced == Init /\ [][NextSynced]_vars

LastSyncedReceived == IF extra = <<>> THEN -1 ELSE extra[1].received

\* C18: no call of setLastSynced, setLastSent or setLastReceived lowers the
\* stored sent or received value.
C18_StoredNeverRegresses ==
    [][/\ LastSyncedSent' >= LastSyncedSent
       /\ LastSyncedReceived' >= LastSyncedReceived]_vars

\* C19: after setLastSynced(w) a second setLastSynced(w) would put the
\* record that is already stored.
C19_SetLastSyncedIdempotent ==
    [][\A w \in Watermarks :
          StoreSetLastSynced(w) => LastSyncedAfter(extra', w) = extra'[1]]_vars

C19_Witness ==
    /\ extra # <<>>
    /\ extra[1].sent = 1
    /\ extra[1].received = 0
    /\ lastSent = 0

\* ------------------------------------------- claims: the existence check
\* The store object of another tab of the device, on the same database, with
\* its own `adding` map and its own ts(): its add, on the empty log
\* (localSeq 0), passes its existence check and writes its entry.
OtherTabAdd(content, scope, timestamp) ==
    /\ idIndex
    /\ log = {}
    /\ LET newMetadata == NewMetadata(Undefined, 0, timestamp, content, scope)
           meta == WithId(IF sign THEN WithSignature(newMetadata) ELSE newMetadata)
       IN  /\ ~IsDefined(GetById(meta.id))
           /\ log' = log \cup {EntryOf(meta, content)}
    /\ UNCHANGED <<adding, extra, clock, sign, idIndex, calls, byIdRes, removeRes, changeRes, fn, ix, factory>>
    /\ UNCHANGED <<markVars, nodeVars, tabVars, cnode, storage>>

\* The store with the writes of another tab's store object.
NextExist ==
    \/ AddStep
    \/ \E content \in Contents, scope \in Scopes, timestamp \in 1..MaxCalls :
          OtherTabAdd(content, scope, timestamp)

SpecExist == Init /\ [][NextExist]_vars

\* C20: an add whose existence check finds its id in the store returns null
\* (it does not throw) and leaves the stored entries as they were.
C20_ExistingIdGivesNull ==
    [][\A c \in CallIds :
          ( /\ calls[c].pc = "exist"
            /\ calls'[c] # calls[c]
            /\ IsDefined(GetById(calls[c].meta[1].id)) )
          => /\ calls'[c].pc = "done"
             /\ ~IsDefined(calls'[c].ret)
             /\ log' = log]_vars

C20_Witness ==
    /\ ReturnedNull(1)
    /\ calls[2].pc = "idle"
    /\ IsDefined(GetById(calls[1].meta[1].id))

\* ------------------------------------------------- claims: changeMeta
\* The diffs given to changeMeta: a new scope, another seq, another id.
Diffs ==
    { [scope |-> "post"],
      [seq |-> <<0, MaxCalls, deviceName>>],
      [id |-> UnknownId] }

\* The store with changeMeta and byId.
NextChange ==
    \/ AddStep
    \/ \E id \in KnownIds \cup {UnknownId} : ById(id)
    \/ \E id \in KnownIds \cup {UnknownId}, diff \in Diffs : ChangeMeta(id, diff)

SpecChange == Init /\ [][NextChange]_vars

\* C21: changeMeta on a known id has returned true and a following byId of
\* that id gives metadata with the scope of the diff; changeMeta on an unknown
\* id has returned false.
C21_ChangeMetaThenById ==
    /\ (changeRes.ret = Some(TRUE) /\ byIdRes.id = changeRes.id)
          => /\ IsDefined(byIdRes.meta)
             /\ \E e \in log : e.metadata.id = byIdRes.id[1]
                                 /\ byIdRes.meta[1] = e.metadata
    /\ (IsDefined(changeRes.id) /\ changeRes.id[1] = UnknownId)
          => changeRes.ret = Some(FALSE)

\* The fields of an entry's metadata that make its identity.
Identity(meta) ==
    [f \in {"id", "seq", "prev", "signature", "proof"} |-> Field(meta, f)]

\* C22: a changeMeta call leaves every stored entry with its id, seq, prev,
\* signature and proof.
C22_ChangeMetaKeepsIdentity ==
    [][changeRes' # changeRes
          => \A e \in log : \E after \in log' :
                /\ after.metadata.id = e.metadata.id
                /\ Identity(after.metadata) = Identity(e.metadata)]_vars

\* ------------------------------------------------------ claims: remove
\* C23: once remove(id) has returned the entry of a known id, the log holds
\* no entry with that id; on an unknown id remove has returned null.
C23_RemoveDeletes ==
    /\ IsDefined(removeRes.entry) => ~IsDefined(GetById(removeRes.id[1]))
    /\ (IsDefined(removeRes.id) /\ removeRes.id[1] = UnknownId)
          => (~removeRes.threw /\ ~IsDefined(removeRes.entry))

\* =========================================================================
\* Part D.  The IndexedStore of index.ts, whose add takes the metadata it is
\* given.  An id 'nodeTime node counter' is held as <<nodeTime, node, counter>>.
\* =========================================================================
\* The metadata handed to add.
Metas ==
    [id : {<<1, "a", 0>>, <<2, "a", 0>>}, time : 1..2, seq : 0..MaxSeq]

\* created: [meta.time, id[1], id[2], id[0]].join(' ')
Created(meta) == <<meta.time, meta.id[2], meta.id[3], meta.id[1]>>

\* openDB resolves and the callback given to then() runs up to its
\* `await this.db`: this.db is the promise of that very callback.
IxOpened ==
    /\ ix.db = "opening"
    /\ ix' = [ix EXCEPT !.db = "awaitsItself"]
    /\ UNCHANGED <<log, adding, extra, clock, sign, idIndex, calls, byIdRes,
                   removeRes, changeRes, fn, factory>>
    /\ UNCHANGED <<markVars, nodeVars, tabVars, cnode, storage>>

\* add(action, meta): the entry is built; a set marker gives false, otherwise
\* the marker is set and the call awaits this.os('log'), that is this.db.
IxAdd(meta) ==
    /\ ix' = IF Created(meta) \in ix.adding
             THEN [ix EXCEPT !.add = Some([pc |-> "done", meta |-> meta, ret |-> FALSE])]
             ELSE [ix EXCEPT !.adding = @ \cup {Created(meta)},
                             !.add = Some([pc |-> "os", meta |-> meta, ret |-> FALSE])]
    /\ UNCHANGED <<log, adding, extra, clock, sign, idIndex, calls, byIdRes,
                   removeRes, changeRes, fn, factory>>
    /\ UNCHANGED <<markVars, nodeVars, tabVars, cnode, storage>>

\* byId(id): the call awaits this.os('log').
IxById(id) ==
    /\ ix' = [ix EXCEPT !.byId = Some([pc |-> "os", id |-> id])]
    /\ UNCHANGED <<log, adding, extra, clock, sign, idIndex, calls, byIdRes,
                   removeRes, changeRes, fn, factory>>
    /\ UNCHANGED <<markVars, nodeVars, tabVars, cnode, storage>>

\* The steps of the store of index.ts: nothing resolves this.db, so no call
\* gets past its first await.
NextIndexed ==
    \/ IxOpened
    \/ \E meta \in Metas : IxAdd(meta)
    \/ \E meta \in Metas : IxById(meta.id)

SpecIndexed == Init /\ [][NextIndexed]_vars /\ WF_vars(NextIndexed)

\* C24: an add(action, meta) that was let in is followed by a byId(meta.id)
\* that has returned that metadata.
C24_AdmittedIsReturned ==
    (IsDefined(ix.add) /\ ix.add[1].pc = "os")
        ~> (IsDefined(ix.byId) /\ ix.byId[1].pc = "done")

\* ------------------------------------------- claims: one entry for an add
\* The tabs with the 'add' storage events that reach them.
NextStorage ==
    \/ \E t \in Tabs : Construct(t)
    \/ \E t \in Tabs : LockGrant(t)
    \/ \E t \in Tabs : Destroy(t)
    \/ \E t \in Tabs : TabAdd(t)
    \/ \E t \in Tabs : OnStorageAdd(t)

SpecStorage == Init /\ [][NextStorage]_vars

NextLead ==
    \/ \E t \in Tabs : Construct(t)
    \/ \E t \in Tabs : Initialize(t)
    \/ \E t \in Tabs : LockGrant(t)
    \/ \E t \in Tabs : Destroy(t)
    \/ \E t \in Tabs : TabAdd(t)

SpecLead == Init /\ [][NextLead]_vars

\* C26: at the moment an initialized tab is granted the lock, its
\* lastAddedCache equals the store's lastAdded.
C26_LeaderCacheReloaded ==
    [][\A t \in Tabs :
          (lock'.held = t /\ lock.held # t /\ tab[t].initialized)
          => tab'[t].lastAddedCache = TabLastAdded]_vars

\* =========================================================================
\* Part E.  Inbound messages: the 'error' handler of the node's connection
\* (client-node.ts 93-100) and onMessage of the example server.
\* =========================================================================
\* The errors a connection reports: a message it could not read, another one.
ConnectionErrors == {"Wrong message format", "other"}

\* connection.on('error', ...): for 'Wrong message format' the handler
\* evaluates `new LoguxError(...)`, a name the module does not define, and
\* throws before sendError and disconnect; for another error this.error emits
\* it, disconnects the connection (which runs onDisconnect) and throws it.
OnConnectionError(message) ==
    /\ fn' = [name |-> "onError", args |-> <<message>>,
              out |-> <<[threw |-> TRUE, reply |-> Undefined, created |-> 0]>>]
    /\ IF message = "Wrong message format"
         THEN UNCHANGED <<connected, state, syncing>>
         ELSE /\ connected' = FALSE
              /\ syncing' = 0
              /\ state' = SetState(state, "disconnected")
    /\ UNCHANGED <<nlog, sync>>
    /\ UNCHANGED <<log, adding, extra, clock, sign, idIndex, calls, byIdRes,
                   removeRes, changeRes, ix, factory>>
    /\ UNCHANGED <<markVars, tabVars, cnode, storage>>

\* The texts a socket hands to the server's onMessage: kind says what
\* JSON.parse makes of the text; for an array, type and body are its first
\* two items (body <<>> when the array has one item).
ServerInputs ==
    [kind : {"badJson", "number"}, type : {""}, body : {Undefined}]
    \cup [kind : {"array"}, type : {"hello", "other"},
          body : {Undefined, Some([localSeq |-> 1, messages |-> 0]),
                  Some([localSeq |-> 1, messages |-> 1])}]

\* A text that is not a protocol message: no JSON, no array, no body.
Malformed(input) == input.kind # "array" \/ ~IsDefined(input.body)

\* onMessage(message, sender) of the server: bad JSON is answered with
\* 'err Bad JSON' and msg stays undefined; `const [type, body] = msg` throws
\* for undefined and for a number; for 'hello' `const { localSeq } = body`
\* throws without a body, and the messages of the body are created in 'log'.
ServerOnMessage(input) ==
    /\ LET reply == IF input.kind = "badJson" THEN Some("err Bad JSON") ELSE Undefined
           threw == \/ input.kind # "array"
                    \/ input.type = "hello" /\ ~IsDefined(input.body)
           created == IF ~threw /\ input.type = "hello" THEN input.body[1].messages
                      ELSE 0
       IN  fn' = [name |-> "onMessage", args |-> <<input>>,
                  out |-> <<[threw |-> threw, reply |-> reply, created |-> created]>>]
    /\ UNCHANGED <<log, adding, extra, clock, sign, idIndex, calls, byIdRes,
                   removeRes, changeRes, ix, factory>>
    /\ UNCHANGED <<markVars, nodeVars, tabVars, cnode, storage>>

\* The node's connection events and the server's messages.
NextInbound ==
    \/ OnConnecting
    \/ OnConnect
    \/ OnDisconnect
    \/ \E message \in ConnectionErrors : OnConnectionError(message)
    \/ \E input \in ServerInputs : ServerOnMessage(input)

SpecInbound == Init /\ [][NextInbound]_vars

\* C27: the handler of a malformed inbound message has not thrown: on the
\* node for the connection's 'Wrong message format', on the server for a
\* text that is no protocol message; and the server has created no entry.
C27_MalformedIsDropped ==
    /\ (fn.name = "onError" /\ fn.args[1] = "Wrong message format")
          => ~fn.out[1].threw
    /\ (fn.name = "onMessage" /\ Malformed(fn.args[1]))
          => (~fn.out[1].threw /\ fn.out[1].created = 0)

\* =========================================================================
\* Part F.  The functions of store.ts: isFirstOlder, serializeSeq and
\* deserializeSeq.  A string is held as the sequence of its characters.
\* =========================================================================
\* isFirstOlder(firstMeta, secondMeta)
IsFirstOlder(firstMeta, secondMeta) == firstMeta.time < secondMeta.time

\* The metadata compared: a time and what else tells two of them apart.
TimedMetas == [time : 1..MaxTime, id : {"a", "b"}]

\* isFirstOlder is called both ways round.
FirstOlder(a, b) ==
    /\ fn' = [name |-> "isFirstOlder", args |-> <<a, b>>,
              out |-> <<IsFirstOlder(a, b), IsFirstOlder(b, a)>>]
    /\ UNCHANGED <<log, adding, extra, clock, sign, idIndex, calls, byIdRes,
                   removeRes, changeRes, ix, factory>>
    /\ UNCHANGED <<markVars, nodeVars, tabVars, cnode, storage>>

NextOlder == \E a \in TimedMetas, b \in TimedMetas : FirstOlder(a, b)

SpecOlder == Init /\ [][NextOlder]_vars

\* C28: of isFirstOlder(a, b) and isFirstOlder(b, a) exactly one is true for
\* distinct a and b, and neither for a = b.
C28_FirstOlderTotal ==
    fn.name = "isFirstOlder"
    => IF fn.args[1] = fn.args[2]
       THEN ~fn.out[1] /\ ~fn.out[2]
       ELSE fn.out[1] # fn.out[2]

\* '' + n for an integer n >= 0: its decimal digits.
DigitChars == <<"0", "1", "2", "3", "4", "5", "6", "7", "8", "9">>
RECURSIVE ToDigits(_)
ToDigits(n) ==
    IF n < 10 THEN <<DigitChars[n + 1]>>
    ELSE ToDigits(n \div 10) \o <<DigitChars[(n % 10) + 1]>>

\* The value of a digit character, -1 for another character.
DigitValue(ch) ==
    IF \E d \in 1..10 : DigitChars[d] = ch
    THEN (CHOOSE d \in 1..10 : DigitChars[d] = ch) - 1
    ELSE -1

\* parseInt(text): the number its leading digits spell ("NaN" without one).
RECURSIVE ParseDigits(_, _, _)
ParseDigits(text, i, acc) ==
    IF i > Len(text) \/ DigitValue(text[i]) = -1 THEN acc
    ELSE ParseDigits(text, i + 1, acc * 10 + DigitValue(text[i]))

ParseInt(text) ==
    IF text = <<>> \/ DigitValue(text[1]) = -1 THEN "NaN"
    ELSE ParseDigits(text, 1, 0)

\* text.split(':')
RECURSIVE Split(_, _, _)
Split(text, i, part) ==
    IF i > Len(text) THEN <<part>>
    ELSE IF text[i] = ":" THEN <<part>> \o Split(text, i + 1, <<>>)
    ELSE Split(text, i + 1, Append(part, text[i]))

\* serializeSeq(seq): '' + seq[0] + ':' + seq[1] + ':' + seq[2]
SerializeSeq(seq) ==
    ToDigits(seq[1]) \o <<":">> \o ToDigits(seq[2]) \o <<":">> \o seq[3]

\* deserializeSeq(seq): [parseInt(parts[0]), parseInt(parts[1]), parts[2]]
DeserializeSeq(text) ==
    LET parts == Split(text, 1, <<>>)
    IN  <<ParseInt(parts[1]), ParseInt(parts[2]), parts[3]>>

\* The device names: the strings of up to MaxName characters of these.
NameChars == {"a", ":"}
Names == UNION {[1..n -> NameChars] : n \in 0..MaxName}

\* The seq tuples [timestamp, localSeq, deviceName].
Seqs == {<<timestamp, localSeq, name>> :
            timestamp \in 0..MaxStamp, localSeq \in 0..MaxSeq, name \in Names}

\* A seq is serialized and the string deserialized.
SeqRoundTrip(seq) ==
    /\ fn' = [name |-> "deserializeSeq", args |-> <<seq>>,
              out |-> <<DeserializeSeq(SerializeSeq(seq))>>]
    /\ UNCHANGED <<log, adding, extra, clock, sign, idIndex, calls, byIdRes,
                   removeRes, changeRes, ix, factory>>
    /\ UNCHANGED <<markVars, nodeVars, tabVars, cnode, storage>>

NextSeq == \E seq \in Seqs : SeqRoundTrip(seq)

SpecSeq == Init /\ [][NextSeq]_vars

\* C29: deserializeSeq(serializeSeq(seq)) is seq.
C29_SeqRoundTrip ==
    fn.name = "deserializeSeq" => fn.out[1] = fn.args[1]

\* ------------------------------------------- claims: signature and id
\* The metadata without the given fields.
Without(meta, fields) == [f \in DOMAIN meta \ fields |-> meta[f]]

\* With a signing function the signature signs the metadata without id and
\* signature and the id digests the metadata with the signature; without one
\* there is no signature and the id digests the metadata without the id.
SignedThenHashed(meta) ==
    IF sign
    THEN /\ "signature" \in DOMAIN meta
         /\ meta.signature = Signature(Without(meta, {"id", "signature"}))
         /\ meta.id = Hash(Without(meta, {"id"}))
    ELSE /\ "signature" \notin DOMAIN meta
         /\ meta.id = Hash(Without(meta, {"id"}))

\* The metadata add has completed with an id: of the calls and of the log.
IdentifiedMetas ==
    {calls[c].meta[1] : c \in {d \in CallIds : IsDefined(calls[d].meta)
                                               /\ "id" \in DOMAIN calls[d].meta[1]}}
    \cup {e.metadata : e \in log}

\* C30: every metadata add has given an id is signed first and hashed with
\* its signature (hashed alone without a signing function), and two of them
\* that agree on every field but the id have the same id.
C30_SignThenHash ==
    /\ \A meta \in IdentifiedMetas : SignedThenHashed(meta)
    /\ \A a, b \in IdentifiedMetas :
          Without(a, {"id"}) = Without(b, {"id"}) => a.id = b.id

C30_Witness ==
    /\ sign
    /\ \E c \in CallIds : Returned(c) /\ Persisted(c)

\* ------------------------------------------------- claims: the prev chain
\* A message of another device's log, which a caller may hold and pass as prev.
RemoteMessage ==
    EntryOf(WithId([NewMetadata(Undefined, 0, 0, "test", "private")
                       EXCEPT !.seq = <<0, 0, "bob">>]), "test")

\* The values of the optional argument prev: left out, a stored entry, or a
\* message the caller got elsewhere.
Prevs == {Undefined, Some(RemoteMessage)} \cup {Some(e) : e \in log}

\* The store's add called with any prev.
NextChain ==
    \/ \E c \in CallIds, content \in Contents, scope \in Scopes, prev \in Prevs :
          AddCall(c, content, scope, prev)
    \/ \E c \in CallIds : AddGetLastAdded(c)
    \/ \E c \in CallIds : AddResume(c)
    \/ \E c \in CallIds : AddSigned(c)
    \/ \E c \in CallIds : AddExist(c)

SpecChain == Init /\ [][NextChain]_vars

\* C31: a stored entry with localSeq 0 has prev null, and one with localSeq
\* n > 0 has as prev the id of the stored entry with localSeq n - 1, whatever
\* prev the caller of add passed.
C31_PrevChain ==
    \A e \in log :
        IF LocalSeqOf(e) = 0
        THEN e.metadata.prev = Undefined
        ELSE \E p \in log : /\ LocalSeqOf(p) = LocalSeqOf(e) - 1
                             /\ e.metadata.prev = Some(p.metadata.id)

\* ------------------------------------- claims: the sequence number of add
\* The second argument of add as callers give it: left out, { scope }, or
\* the { seq: 7 } of test/index.ts.
Options == {Undefined, Some([scope |-> "private"]), Some([seq |-> 7])}

\* store.add(content, options): the parameter pattern { scope } is matched
\* against the second argument, which throws when there is none; a property
\* the argument does not have gives scope undefined (held as "undefined").
AddCallOptions(c, content, options) ==
    IF ~IsDefined(options)
    THEN /\ calls[c].pc = "idle"
         /\ \A d \in CallIds : d < c => calls[d].pc # "idle"
         /\ calls' = [calls EXCEPT ![c] =
                         [@ EXCEPT !.pc = "threw", !.content = content]]
         /\ UNCHANGED <<log, adding, extra, clock, sign, idIndex, byIdRes,
                        removeRes, changeRes, fn, ix, factory>>
         /\ UNCHANGED <<markVars, nodeVars, tabVars, cnode, storage>>
    ELSE AddCall(c, content,
                 IF IsDefined(Field(options[1], "scope"))
                 THEN options[1].scope ELSE "undefined",
                 Undefined)

\* The store's add called as the tests and the README call it.
NextOptions ==
    \/ \E c \in CallIds, content \in Contents, options \in Options :
          AddCallOptions(c, content, options)
    \/ \E c \in CallIds : AddGetLastAdded(c)
    \/ \E c \in CallIds : AddResume(c)
    \/ \E c \in CallIds : AddSigned(c)
    \/ \E c \in CallIds : AddExist(c)

SpecOptions == Init /\ [][NextOptions]_vars

\* The sequence number in the metadata: store.ts returns seq as the array
\* [timestamp, localSeq, deviceName], which is equal to no number; the number
\* the store chose is its item 1.
SeqNumber(meta) == meta.seq[2]

\* C32: of add calls made one after the other on a new store, the first has
\* returned metadata with seq 1 and the second metadata with seq 2, whatever
\* the caller passed as the second argument.
C32_StoreChoosesSeq ==
    \A c \in CallIds :
        (\A d \in 1..c : Finished(d) /\ calls[d].with = {})
        => Returned(c) /\ SeqNumber(calls[c].ret[1]) = c

\* =========================================================================
\* Part G.  The action creators (unnamed/part_010 287-343, the same factory
\* as unnamed/part_005 168-218): ActionCreator(type) asks the module's one
\* factory, _createAction, for a creator.
\* =========================================================================
\* The action types of the example (unnamed/part_009) and the payloads: a
\* plain object, an Error.
ActionTypes == {"user/rename", "count/increment", "count/set"}
Payloads == {[kind |-> "object", name |-> "alice"], [kind |-> "error", name |-> "oops"]}

\* defaultIsError: p => p instanceof Error
DefaultIsError(payload) == payload.kind = "error"

\* The creator applied to a payload: { type, data }, with error: true when
\* isError holds for the payload (no commonMeta, no meta).
CreatedAction(fullType, payload) ==
    IF DefaultIsError(payload)
    THEN [type |-> fullType, data |-> payload, error |-> TRUE]
    ELSE [type |-> fullType, data |-> payload]

\* ActionCreator(type)(payload) in a build whose import.meta.env.PROD is
\* prod: outside production a type the factory has seen throws 'Duplicate
\* action type', a new one is recorded in actionTypes.
CreateAction(type, payload, prod) ==
    /\ factory.env \in {"unread", IF prod THEN "production" ELSE "development"}
    /\ LET duplicate == ~prod /\ type \in factory.actionTypes IN
       /\ factory' = [env |-> IF prod THEN "production" ELSE "development",
                      actionTypes |-> IF prod THEN factory.actionTypes
                                      ELSE factory.actionTypes \cup {type}]
       /\ fn' = [name |-> "ActionCreator", args |-> <<type, payload>>,
                 out |-> <<[threw |-> duplicate,
                            action |-> IF duplicate THEN Undefined
                                       ELSE Some(CreatedAction(type, payload))]>>]
    /\ UNCHANGED <<log, adding, extra, clock, sign, idIndex, calls, byIdRes,
                   removeRes, changeRes, ix>>
    /\ UNCHANGED <<markVars, nodeVars, tabVars, cnode, storage>>

NextActions ==
    \E type \in ActionTypes, payload \in Payloads, prod \in BOOLEAN :
        CreateAction(type, payload, prod)

SpecActions == Init /\ [][NextActions]_vars

\* C33: a call ActionCreator(type)(p), with a type used before or not, has
\* returned exactly { type, data: p }.
C33_CreatorGivesTypeAndData ==
    fn.name = "ActionCreator"
    => /\ ~fn.out[1].threw
       /\ fn.out[1].action = Some([type |-> fn.args[1], data |-> fn.args[2]])

\* ------------------------------------------- claims: sendSync on an open socket
\* C34: a sendSync call with entries, made while the socket is open and the
\* state is 'connected' (or 'synchronized', after an earlier sendSync on the
\* same connection), gives the socket exactly one more message, a 'sync'.
C34_OpenSendSyncTransmits ==
    [][\A lo \in 1..MaxWrites, hi \in 1..MaxWrites :
          ( /\ lo <= hi /\ hi <= Len(tlog)
            /\ tab[1].party = "open"
            /\ tab[1].state \in {"connected", "synchronized"}
            /\ TabSendSync(1, tlog[hi].localSeq, Batch(lo, hi)) )
          => /\ Len(tab'[1].sent) = Len(tab[1].sent) + 1
             /\ tab'[1].sent[Len(tab'[1].sent)].type = "sync"]_vars

\* ------------------------------------------------ claims: the adding map
\* C35: whenever no add call is in flight, the adding map is empty.
C35_NoStaleMarker ==
    (\A c \in CallIds : ~InFlight(c)) => adding = {}

\* ------------------------------------ claims: initialize racing with add
\* initialize(), first half: the getLastAdded request the constructor started
\* reads the store; the call still awaits Promise.all.
InitializeRead(t) ==
    /\ tab[t].status # "none"
    /\ ~tab[t].initialized
    /\ ~IsDefined(tab[t].added)
    /\ tab' = [tab EXCEPT ![t].added = Some(TabLastAdded)]
    /\ UNCHANGED <<lock, tlog, writes>>
    /\ UNCHANGED <<storeVars, markVars, nodeVars, cnode, storage>>

\* initialize(), second half: it resumes with what was read and assigns it:
\* this.initialized = true; this.lastAddedCache = added.
InitializeResume(t) ==
    /\ ~tab[t].initialized
    /\ IsDefined(tab[t].added)
    /\ tab' = [tab EXCEPT ![t].initialized = TRUE,
                          ![t].lastAddedCache = tab[t].added[1]]
    /\ UNCHANGED <<lock, tlog, writes>>
    /\ UNCHANGED <<storeVars, markVars, nodeVars, cnode, storage>>

\* One client: its constructor, the two halves of initialize, its socket
\* and its adds.
NextInitialize ==
    \/ Construct(1)
    \/ InitializeRead(1)
    \/ InitializeResume(1)
    \/ LockGrant(1)
    \/ \E fail \in BOOLEAN : PartyOpen(1, fail)
    \/ TabAdd(1)

SpecInitialize == Init /\ [][NextInitialize]_vars

\* C36: once initialize has completed (every add that was started has
\* completed: add is one step here), lastAddedCache is the greatest sequence
\* number in the log.
C36_CacheIsLastAdded ==
    tab[1].initialized => tab[1].lastAddedCache = TabLastAdded

\* =========================================================================
\* Part H.  ClientNode (client-node.ts 13-43) over BaseNode: the connect
\* handshake waits for initialize() by chaining on this.initializing.
\* =========================================================================
\* this.sendConnect() is called k times on the current connection.
SendConnect(node, k) ==
    IF k = 0 THEN node
    ELSE [node EXCEPT !.handshakes[node.conn] = @ + k]

\* ClientNode.onConnect: when not yet connected, connected is set and a
\* callback `if (this.connected) this.sendConnect()` is chained on
\* this.initializing; on a promise that is already resolved the callback runs
\* before any other event.
ClientOnConnect(node) ==
    IF node.connected THEN node
    ELSE LET marked == [node EXCEPT !.connected = TRUE] IN
         IF node.initialized THEN SendConnect(marked, 1)
         ELSE [marked EXCEPT !.chained = @ + 1]

\* The connection comes up and emits 'connect'.
TransportConnect ==
    /\ ~cnode.up
    /\ cnode.conn < MaxConns
    /\ cnode' = ClientOnConnect([cnode EXCEPT !.up = TRUE, !.conn = @ + 1])
    /\ UNCHANGED <<storeVars, markVars, nodeVars, tabVars, storage>>

\* The connection drops and emits 'disconnect': BaseNode.onDisconnect.
TransportDisconnect ==
    /\ cnode.up
    /\ cnode' = [cnode EXCEPT !.up = FALSE, !.connected = FALSE]
    /\ UNCHANGED <<storeVars, markVars, nodeVars, tabVars, storage>>

\* initialize() resumes after its reads: initialized is set, onConnect is
\* called when the connection is up, and the promise resolves, which runs the
\* chained callbacks one after the other.
ClientInitialized ==
    /\ ~cnode.initialized
    /\ LET done == [cnode EXCEPT !.initialized = TRUE, !.chained = 0]
           after == IF done.up THEN ClientOnConnect(done) ELSE done
       IN  cnode' = SendConnect(after, IF after.connected THEN cnode.chained ELSE 0)
    /\ UNCHANGED <<storeVars, markVars, nodeVars, tabVars, storage>>

NextClientNode ==
    \/ TransportConnect
    \/ TransportDisconnect
    \/ ClientInitialized

SpecClientNode == Init /\ [][NextClientNode]_vars

\* C37: on each connection the handshake has been sent at most once, and
\* none before initialize() has completed.
C37_OneHandshakePerConnection ==
    /\ \A n \in 1..MaxConns : cnode.handshakes[n] <= 1
    /\ ~cnode.initialized => \A n \in 1..MaxConns : cnode.handshakes[n] = 0

\* ------------------------------------- claims: the leader's state in the tabs
\* onStorage(ev) for an event that carries a value: the test of the 'state'
\* key is the else of `if (data[0] !== this.tabId)`, inside the branch of the
\* 'add' key.  (What the leader does with another tab's 'add' is OnStorageAdd.)
OnStorage(client, key, ownTab, value) ==
    IF key = "add"
    THEN IF ~ownTab THEN client
         ELSE IF key = "state" THEN [client EXCEPT !.leaderState = value]
         ELSE client
    ELSE client

\* The storage event of a write under the 'state' key reaches tab u.
OnStorageState(u) ==
    /\ u \in storage.pending
    /\ storage' = [storage EXCEPT !.pending = @ \ {u}]
    /\ tab' = [tab EXCEPT ![u] = OnStorage(tab[u], "state", FALSE, storage.state)]
    /\ UNCHANGED <<lock, tlog, writes>>
    /\ UNCHANGED <<storeVars, markVars, nodeVars, cnode>>

\* The tabs, their sockets and the storage events of the leader's state.
NextShare ==
    \/ \E t \in Tabs : Construct(t)
    \/ \E t \in Tabs : LockGrant(t)
    \/ \E t \in Tabs, fail \in BOOLEAN : PartyOpen(t, fail)
    \/ \E t \in Tabs, fail \in BOOLEAN : PartyClose(t, fail)
    \/ \E u \in Tabs : OnStorageState(u)

SpecShare == Init /\ [][NextShare]_vars

\* C38: when the storage event of a state the leader wrote is delivered to
\* another tab, that tab's leaderState becomes the state that was written.
C38_FollowerSeesLeaderState ==
    [][\A u \in Tabs :
          (u \in storage.pending /\ u \notin storage'.pending)
          => tab'[u].leaderState = storage.state]_vars

\* ------------------------------------------- claims: the `received` map
\* An entry of the remote peer: its action and the id its metadata carries.
RemoteAction == [type |-> "remote"]
RemoteId ==
    Hash([prev |-> Undefined, seq |-> <<1, 1, "bob">>, localSeq |-> 1,
          time |-> 1, author |-> "did:key:z2"])

\* An entry arrives from the remote peer and its id is recorded in
\* `received`, before the entry is added to the local log.
ReceiveEntry(t) ==
    /\ tab[t].status # "none"
    /\ tab' = [tab EXCEPT ![t].received = @ \cup {RemoteId}]
    /\ UNCHANGED <<lock, tlog, writes>>
    /\ UNCHANGED <<storeVars, markVars, nodeVars, cnode, storage>>

\* The tabs with entries arriving from the peer and added to the log.
NextReceived ==
    \/ \E t \in Tabs : Construct(t)
    \/ \E t \in Tabs : LockGrant(t)
    \/ \E t \in Tabs : ReceiveEntry(t)
    \/ \E t \in Tabs : TabAddAction(t, RemoteAction)
    \/ \E t \in Tabs : TabAdd(t)

SpecReceived == Init /\ [][NextReceived]_vars

====
